---- MODULE Spec2Model ----
(***************************************************************************)
(* LangChainModel (genai_processors/contrib/langchain_model.py): a         *)
(* processor that buffers one turn of ProcessorParts, converts it to       *)
(* LangChain messages grouped by role, and streams the chat model's        *)
(* chunks back as ProcessorParts.                                          *)
(*                                                                         *)
(* Three specifications share the definitions below:                       *)
(*   SpecConv  _convert_to_langchain_messages, one loop iteration a step   *)
(*   Spec      one invocation of call() on an adapter                      *)
(*   SpecConc  two interleaved invocations of call() on one adapter        *)
(***************************************************************************)
EXTENDS Integers, Sequences, FiniteSets, TLC

VARIABLES
    \* the adapter's attributes, set by __init__
    llm, system_instruction, prompt_template,
    \* one invocation of call(), per invocation id
    pc, stream, parts, msgs, payload, astreamCalls, yielded, out, err,
    \* one run of _convert_to_langchain_messages
    cvPc, cvParts, cvIdx, cv, cvResult

confVars == <<llm, system_instruction, prompt_template>>
callVars == <<pc, stream, parts, msgs, payload, astreamCalls, yielded, out, err>>
convVars == <<cvPc, cvParts, cvIdx, cv, cvResult>>
vars == <<llm, system_instruction, prompt_template,
          pc, stream, parts, msgs, payload, astreamCalls, yielded, out, err,
          cvPc, cvParts, cvIdx, cv, cvResult>>

----------------------------------------------------------------------------
(* Bounds of the model *)

\* longest turn handed to _convert_to_langchain_messages in SpecConv
MaxTurn == 3
\* longest input stream of one call() in Spec
MaxIn == 3
\* longest input stream of one call() in SpecConc
MaxConcIn == 1
\* most chunks the chat model yields in one astream()
MaxChunks == 2

----------------------------------------------------------------------------
(* Values *)

\* Python's None, where a role or a template is absent
None == "<None>"
\* last_part before any part was seen
NoPart == [none |-> TRUE]
\* an empty dict
EmptyDict == <<>>

Roles == {"user", "model", "system", None}

TextPlain == [type |-> "text", subtype |-> "plain"]
ImagePng == [type |-> "image", subtype |-> "png"]
OctetStream == [type |-> "application", subtype |-> "octet-stream"]

\* What a part carries besides its role: text parts, an image with bytes, an
\* image without bytes, and a part that is neither text nor image.
Payloads ==
    { [mimetype |-> TextPlain, text |-> "a", bytes |-> <<>>, metadata |-> [tag |-> "m1"]],
      [mimetype |-> TextPlain, text |-> "b", bytes |-> <<>>, metadata |-> [tag |-> "m2"]],
      [mimetype |-> ImagePng, text |-> "", bytes |-> <<137, 80, 78, 71>>, metadata |-> [tag |-> "m1"]],
      [mimetype |-> ImagePng, text |-> "", bytes |-> <<>>, metadata |-> [tag |-> "m2"]],
      [mimetype |-> OctetStream, text |-> "", bytes |-> <<1>>, metadata |-> [tag |-> "m1"]] }

ProcessorPart(role, p) ==
    [role |-> role, mimetype |-> p.mimetype, text |-> p.text, bytes |-> p.bytes,
     metadata |-> p.metadata]

Parts == { ProcessorPart(r, p) : r \in Roles, p \in Payloads }

SeqsUpTo(S, n) == UNION { [1..k -> S] : k \in 0..n }

\* content_api.is_text / content_api.is_image
is_text(mimetype) == mimetype.type = "text"
is_image(mimetype) == mimetype.type = "image"

----------------------------------------------------------------------------
(* base64.b64encode(part.bytes).decode('utf-8') *)

B64Alphabet ==
    << "A", "B", "C", "D", "E", "F", "G", "H", "I", "J", "K", "L", "M", "N", "O", "P",
       "Q", "R", "S", "T", "U", "V", "W", "X", "Y", "Z", "a", "b", "c", "d", "e", "f",
       "g", "h", "i", "j", "k", "l", "m", "n", "o", "p", "q", "r", "s", "t", "u", "v",
       "w", "x", "y", "z", "0", "1", "2", "3", "4", "5", "6", "7", "8", "9", "+", "/" >>

B64Char(n) == B64Alphabet[n + 1]

RECURSIVE b64encode(_)
b64encode(bytes) ==
    IF Len(bytes) = 0 THEN <<>>
    ELSE IF Len(bytes) = 1 THEN
        << B64Char(bytes[1] \div 4), B64Char((bytes[1] % 4) * 16), "=", "=" >>
    ELSE IF Len(bytes) = 2 THEN
        << B64Char(bytes[1] \div 4),
           B64Char((bytes[1] % 4) * 16 + bytes[2] \div 16),
           B64Char((bytes[2] % 16) * 4), "=" >>
    ELSE
        << B64Char(bytes[1] \div 4),
           B64Char((bytes[1] % 4) * 16 + bytes[2] \div 16),
           B64Char((bytes[2] % 16) * 4 + bytes[3] \div 64),
           B64Char(bytes[3] % 64) >>
        \o b64encode(SubSeq(bytes, 4, Len(bytes)))

\* f'data:{part.mimetype};base64,{b64}', as the sequence of its pieces
DataUrl(mimetype, b64) ==
    << "data:", mimetype.type, "/", mimetype.subtype, ";base64," >> \o b64

----------------------------------------------------------------------------
(* _convert_to_langchain_messages *)

TextBlock(text) == [type |-> "text", text |-> text]
ImageBlock(url) == [type |-> "image_url", image_url |-> [url |-> url]]

\* a message's content: a bare string, or a list of blocks
StrContent(text) == [kind |-> "str", text |-> text]
ListContent(blocks) == [kind |-> "list", blocks |-> blocks]

Message(cls, content, additional_kwargs) ==
    [cls |-> cls, content |-> content, additional_kwargs |-> additional_kwargs]

\* IsSupported with the test of part.bytes dropped
IsSupported_NoBytesCheck(part) ==
    \/ is_text(part.mimetype)
    \/ is_image(part.mimetype)

\* the branch of the loop body that raises ValueError is the negation of this
IsSupported(part) ==
    \/ is_text(part.mimetype)
    \/ is_image(part.mimetype) /\ part.bytes # <<>>

\* part_content of a supported part
PartContent(part) ==
    IF is_text(part.mimetype)
    THEN TextBlock(part.text)
    ELSE ImageBlock(DataUrl(part.mimetype, b64encode(part.bytes)))

\* {'system': SystemMessage, 'model': AIMessage}.get(last_role, HumanMessage)
MessageClass(role) ==
    IF role = "system" THEN "SystemMessage"
    ELSE IF role = "model" THEN "AIMessage"
    ELSE "HumanMessage"

\* FlushContent with the length test dropped: collapses whenever the first
\* block is a text block
FlushContent_FirstText(content_parts) ==
    IF content_parts[1].type = "text"
    THEN StrContent(content_parts[1].text)
    ELSE ListContent(content_parts)

\* content of the message flush() builds from content_parts
FlushContent(content_parts) ==
    IF Len(content_parts) = 1 /\ content_parts[1].type = "text"
    THEN StrContent(content_parts[1].text)
    ELSE ListContent(content_parts)

\* The locals of one run. pending and members are bookkeeping, not program
\* state: pending holds the parts whose blocks are in content_parts, and
\* members[k] the parts whose blocks went into messages[k].
InitialLocals ==
    [messages |-> <<>>, content_parts |-> <<>>, last_role |-> None, last_part |-> NoPart,
     pending |-> <<>>, members |-> <<>>]

\* flush()
Flush(st) ==
    IF st.content_parts # <<>>
    THEN [st EXCEPT
            !.messages = Append(@,
                Message(MessageClass(st.last_role),
                        FlushContent(st.content_parts),
                        [metadata |-> IF st.last_part # NoPart
                                      THEN st.last_part.metadata
                                      ELSE EmptyDict])),
            !.content_parts = <<>>,
            !.members = Append(@, st.pending),
            !.pending = <<>>]
    ELSE st

\* the loop body after part_content is built
LoopBody(st, part, part_content) ==
    LET flushed == IF part.role # st.last_role /\ st.last_role # None
                   THEN Flush(st)
                   ELSE st
    IN [flushed EXCEPT
            !.content_parts = Append(@, part_content),
            !.last_role = part.role,
            !.last_part = part,
            !.pending = Append(@, part)]

\* FinalFlush with the flush() after the loop left out
FinalFlush_Missing(st) == st

\* the final flush() and the return
FinalFlush(st) == Flush(st)

RECURSIVE ConvertLoop(_, _)
ConvertLoop(st, ps) ==
    IF ps = <<>> THEN [raised |-> FALSE, st |-> st]
    ELSE IF ~IsSupported(Head(ps)) THEN [raised |-> TRUE, st |-> st]
    ELSE ConvertLoop(LoopBody(st, Head(ps), PartContent(Head(ps))), Tail(ps))

\* the whole function: raised, or the messages returned
ConvertToLangchainMessages(ps) ==
    LET r == ConvertLoop(InitialLocals, ps)
    IN IF r.raised
       THEN [raised |-> TRUE, messages |-> <<>>, members |-> <<>>]
       ELSE LET st == FinalFlush(r.st)
            IN [raised |-> FALSE, messages |-> st.messages, members |-> st.members]

----------------------------------------------------------------------------
(* __init__ *)

\* system_instruction or ''
OrEmpty(arg) == IF arg = None \/ arg = "" THEN "" ELSE arg

\* ChatPromptTemplate.from_template(prompt_template) if prompt_template else None
TemplateOrNone(arg) == IF arg = None \/ arg = "" THEN None ELSE arg

\* the chat models an adapter is built around: one that declares a model
\* attribute and one that does not
ChatModels ==
    { [hasModel |-> TRUE, model |-> "test-model", typeName |-> "FakeChatModel"],
      [hasModel |-> FALSE, model |-> None, typeName |-> "FakeChatModel"] }

SystemInstructionArgs == { None, "", "Be terse." }
PromptTemplateArgs == { None, "Answer: {messages}" }

\* the adapter after __init__(llm, system_instruction, prompt_template)
Construct(models, instructions, templates) ==
    /\ llm \in models
    /\ system_instruction \in { OrEmpty(a) : a \in instructions }
    /\ prompt_template \in { TemplateOrNone(a) : a \in templates }

----------------------------------------------------------------------------
(* call *)

\* ProcessorContent(parts).all_parts
AllParts(ps) == ps

SystemMessage(text) == Message("SystemMessage", StrContent(text), EmptyDict)

\* WithSystemInstruction that leaves a turn alone when it already begins with
\* a system message
WithSystemInstruction_UnlessSystemFirst(messages, instruction) ==
    IF instruction # "" /\ ~(messages # <<>> /\ messages[1].cls = "SystemMessage")
    THEN << SystemMessage(instruction) >> \o messages
    ELSE messages

\* if self.system_instruction: msgs.insert(0, SystemMessage(...))
WithSystemInstruction(messages, instruction) ==
    IF instruction # ""
    THEN << SystemMessage(instruction) >> \o messages
    ELSE messages

\* self.prompt_template.format(messages=msgs): the template with the messages
\* put in place of its variable
Format(template, messages) == [template |-> template, messages |-> messages]

\* the payload handed to astream
Payload(template, messages) ==
    IF template # None
    THEN [kind |-> "dict", input |-> Format(template, messages)]
    ELSE [kind |-> "messages", messages |-> messages]

\* getattr(self.llm, 'model', type(self.llm).__name__)
ModelName(model) == IF model.hasModel THEN model.model ELSE model.typeName

\* the part yielded for one chunk
OutputPart(chunk, model) ==
    [role |-> "model", mimetype |-> TextPlain, text |-> chunk.content, bytes |-> <<>>,
     metadata |-> [model |-> ModelName(model)]]

\* Emit that drops a chunk repeating the text of the part before it
Emit_Deduplicating(emitted, chunk, model) ==
    IF emitted # <<>> /\ emitted[Len(emitted)].text = chunk.content
    THEN emitted
    ELSE Append(emitted, OutputPart(chunk, model))

\* the body of the async for over the chunks: one part yielded per chunk
Emit(emitted, chunk, model) == Append(emitted, OutputPart(chunk, model))

ChunkContents == { "Hello", " world" }

\* call() is invoked with a content stream that will deliver turn
Call(i, turns) ==
    /\ pc[i] = "idle"
    /\ \E turn \in turns : stream' = [stream EXCEPT ![i] = turn]
    /\ pc' = [pc EXCEPT ![i] = "collecting"]
    /\ parts' = [parts EXCEPT ![i] = <<>>]
    /\ UNCHANGED <<msgs, payload, astreamCalls, yielded, out, err, confVars, convVars>>

\* ReceivePart with the buffer held by the adapter and shared by its calls
ReceivePart_SharedBuffer(i) ==
    /\ pc[i] = "collecting"
    /\ Len(parts[i]) < Len(stream[i])
    /\ parts' = [j \in DOMAIN parts |-> Append(parts[j], stream[i][Len(parts[i]) + 1])]
    /\ UNCHANGED <<pc, stream, msgs, payload, astreamCalls, yielded, out, err,
                   confVars, convVars>>

\* ReceivePart with parts.insert(0, part) for parts.append(part)
ReceivePart_Prepend(i) ==
    /\ pc[i] = "collecting"
    /\ Len(parts[i]) < Len(stream[i])
    /\ parts' = [parts EXCEPT ![i] = << stream[i][Len(parts[i]) + 1] >> \o @]
    /\ UNCHANGED <<pc, stream, msgs, payload, astreamCalls, yielded, out, err,
                   confVars, convVars>>

\* async for part in content_stream: parts.append(part)
ReceivePart(i) ==
    /\ pc[i] = "collecting"
    /\ Len(parts[i]) < Len(stream[i])
    /\ parts' = [parts EXCEPT ![i] = Append(@, stream[i][Len(parts[i]) + 1])]
    /\ UNCHANGED <<pc, stream, msgs, payload, astreamCalls, yielded, out, err,
                   confVars, convVars>>

\* The content stream ends: the turn is converted, the system instruction
\* prepended, the payload built and astream invoked; or the conversion raises
\* ValueError, which leaves call().
EndOfInput(i) ==
    /\ pc[i] = "collecting"
    /\ Len(parts[i]) = Len(stream[i])
    /\ LET converted == ConvertToLangchainMessages(AllParts(parts[i]))
           messages == WithSystemInstruction(converted.messages, system_instruction)
       IN IF converted.raised
          THEN /\ pc' = [pc EXCEPT ![i] = "raised"]
               /\ err' = [err EXCEPT ![i] = "ValueError"]
               /\ UNCHANGED <<msgs, payload, astreamCalls>>
          ELSE /\ pc' = [pc EXCEPT ![i] = "streaming"]
               /\ msgs' = [msgs EXCEPT ![i] = messages]
               /\ payload' = [payload EXCEPT ![i] = Payload(prompt_template, messages)]
               /\ astreamCalls' = [astreamCalls EXCEPT ![i] = @ + 1]
               /\ UNCHANGED err
    /\ UNCHANGED <<stream, parts, yielded, out, confVars, convVars>>

\* the model yields a chunk and call() yields the part made from it
ModelYield(i) ==
    /\ pc[i] = "streaming"
    /\ Len(yielded[i]) < MaxChunks
    /\ \E c \in ChunkContents :
          LET chunk == [content |-> c]
          IN /\ yielded' = [yielded EXCEPT ![i] = Append(@, chunk)]
             /\ out' = [out EXCEPT ![i] = Emit(@, chunk, llm)]
    /\ UNCHANGED <<pc, stream, parts, msgs, payload, astreamCalls, err, confVars, convVars>>

\* the model's stream ends and call() returns
ModelEnd(i) ==
    /\ pc[i] = "streaming"
    /\ pc' = [pc EXCEPT ![i] = "done"]
    /\ UNCHANGED <<stream, parts, msgs, payload, astreamCalls, yielded, out, err,
                   confVars, convVars>>

\* ModelRaise with the error caught and astream invoked again
ModelRaise_Retry(i) ==
    /\ pc[i] = "streaming"
    /\ astreamCalls' = [astreamCalls EXCEPT ![i] = @ + 1]
    /\ UNCHANGED <<pc, stream, parts, msgs, payload, yielded, out, err, confVars, convVars>>

\* the model's stream raises: nothing catches it and it leaves call()
ModelRaise(i) ==
    /\ pc[i] = "streaming"
    /\ pc' = [pc EXCEPT ![i] = "raised"]
    /\ err' = [err EXCEPT ![i] = "ExternalModelError"]
    /\ UNCHANGED <<stream, parts, msgs, payload, astreamCalls, yielded, out,
                   confVars, convVars>>

ConvIdle ==
    /\ cvPc = "idle"
    /\ cvParts = <<>>
    /\ cvIdx = 0
    /\ cv = InitialLocals
    /\ cvResult = <<>>

InitCalls(ids) ==
    /\ pc = [i \in ids |-> "idle"]
    /\ stream = [i \in ids |-> <<>>]
    /\ parts = [i \in ids |-> <<>>]
    /\ msgs = [i \in ids |-> <<>>]
    /\ payload = [i \in ids |-> None]
    /\ astreamCalls = [i \in ids |-> 0]
    /\ yielded = [i \in ids |-> <<>>]
    /\ out = [i \in ids |-> <<>>]
    /\ err = [i \in ids |-> None]

----------------------------------------------------------------------------
(* Spec: one invocation of call() *)

OneCall == { 1 }

\* the parts the content stream of Spec is made of
CallParts == { p \in Parts : p.role \in {"user", "system"} /\ p.text # "b" }
CallTurns == SeqsUpTo(CallParts, MaxIn)

Init ==
    /\ Construct(ChatModels, SystemInstructionArgs, PromptTemplateArgs)
    /\ InitCalls(OneCall)
    /\ ConvIdle

Next ==
    \E i \in OneCall :
        \/ Call(i, CallTurns)
        \/ ReceivePart(i)
        \/ EndOfInput(i)
        \/ ModelYield(i)
        \/ ModelEnd(i)
        \/ ModelRaise(i)

Spec == Init /\ [][Next]_vars

----------------------------------------------------------------------------
(* SpecConc: two invocations of call() on one adapter, interleaved at their *)
(* awaits                                                                  *)

TwoCalls == { 1, 2 }

ConcParts ==
    { ProcessorPart("user", p) : p \in { q \in Payloads : q.text = "a" } }
    \cup { ProcessorPart("model", p) : p \in { q \in Payloads : q.text = "b" } }
    \cup { ProcessorPart("user", p) : p \in { q \in Payloads : q.mimetype = OctetStream } }
ConcTurns == SeqsUpTo(ConcParts, MaxConcIn)

InitConc ==
    /\ Construct(ChatModels, SystemInstructionArgs, PromptTemplateArgs)
    /\ InitCalls(TwoCalls)
    /\ ConvIdle

NextConc ==
    \E i \in TwoCalls :
        \/ Call(i, ConcTurns)
        \/ ReceivePart(i)
        \/ EndOfInput(i)
        \/ ModelYield(i)
        \/ ModelEnd(i)
        \/ ModelRaise(i)

SpecConc == InitConc /\ [][NextConc]_vars

----------------------------------------------------------------------------
(* SpecConv: _convert_to_langchain_messages, one loop iteration a step *)

ConvTurns == SeqsUpTo(Parts, MaxTurn)

\* no call() is in progress; the function reads no attribute of the adapter
InitConv ==
    /\ Construct({ m \in ChatModels : m.hasModel }, { None }, { None })
    /\ InitCalls({})
    /\ ConvIdle

\* the function is entered with a turn
ConvEnter ==
    /\ cvPc = "idle"
    /\ cvPc' = "loop"
    /\ \E turn \in ConvTurns : cvParts' = turn
    /\ cvIdx' = 0
    /\ cv' = InitialLocals
    /\ cvResult' = <<>>
    /\ UNCHANGED <<confVars, callVars>>

\* one iteration of the for loop over a supported part
ConvIterate ==
    /\ cvPc = "loop"
    /\ cvIdx < Len(cvParts)
    /\ IsSupported(cvParts[cvIdx + 1])
    /\ cv' = LoopBody(cv, cvParts[cvIdx + 1], PartContent(cvParts[cvIdx + 1]))
    /\ cvIdx' = cvIdx + 1
    /\ UNCHANGED <<cvPc, cvParts, cvResult, confVars, callVars>>

\* the iteration that raises ValueError
ConvRaise ==
    /\ cvPc = "loop"
    /\ cvIdx < Len(cvParts)
    /\ ~IsSupported(cvParts[cvIdx + 1])
    /\ cvPc' = "raised"
    /\ UNCHANGED <<cvParts, cvIdx, cv, cvResult, confVars, callVars>>

\* the loop is over: final flush, return messages
ConvReturn ==
    /\ cvPc = "loop"
    /\ cvIdx = Len(cvParts)
    /\ cv' = FinalFlush(cv)
    /\ cvResult' = cv'.messages
    /\ cvPc' = "returned"
    /\ UNCHANGED <<cvParts, cvIdx, confVars, callVars>>

NextConv ==
    \/ ConvEnter
    \/ ConvIterate
    \/ ConvRaise
    \/ ConvReturn

SpecConv == InitConv /\ [][NextConv]_vars

----------------------------------------------------------------------------
(* Reading a conversion's result *)

\* the blocks a message holds, a bare string being one text block
BlocksOf(message) ==
    IF message.content.kind = "str"
    THEN << TextBlock(message.content.text) >>
    ELSE message.content.blocks

RECURSIVE Flatten(_)
Flatten(seqs) ==
    IF seqs = <<>> THEN <<>> ELSE Head(seqs) \o Flatten(Tail(seqs))

AllBlocks(messages) == Flatten([k \in 1..Len(messages) |-> BlocksOf(messages[k])])

BlocksBuilt(ps) == [j \in 1..Len(ps) |-> PartContent(ps[j])]

\* the positions j such that part j is the last of its message
RECURSIVE GroupEnds(_, _)
GroupEnds(members, offset) ==
    IF members = <<>> THEN {}
    ELSE {offset + Len(Head(members))}
         \cup GroupEnds(Tail(members), offset + Len(Head(members)))

\* the role-to-class mapping as the specification words it
ClassForRole(role) ==
    CASE role = "system" -> "SystemMessage"
      [] role = "model" -> "AIMessage"
      [] OTHER -> "HumanMessage"

\* the number of maximal runs of equal role in a turn
NumRuns(ps) ==
    IF ps = <<>> THEN 0
    ELSE 1 + Cardinality({ j \in 1..(Len(ps) - 1) : ps[j].role # ps[j + 1].role })

----------------------------------------------------------------------------
(* Claims about _convert_to_langchain_messages, under SpecConv *)

\* C2: one message per maximal run of consecutive parts of identical role, an
\* absent role being a role value of its own: two adjacent parts are in
\* different messages if and only if their roles differ, and the number of
\* messages is the number of runs.
C2_OneMessagePerRoleRun ==
    cvPc = "returned" =>
        /\ Flatten(cv.members) = cvParts
        /\ Len(cvResult) = NumRuns(cvParts)
        /\ \A j \in 1..(Len(cvParts) - 1) :
              (j \in GroupEnds(cv.members, 0)) <=> (cvParts[j].role # cvParts[j + 1].role)

\* C3: every part's block is in a message whose class is the one mapped from
\* that part's own role.
C3_ClassFromOwnRole ==
    cvPc = "returned" =>
        /\ Len(cv.members) = Len(cvResult)
        /\ \A k \in 1..Len(cvResult) :
              \A j \in 1..Len(cv.members[k]) :
                  cvResult[k].cls = ClassForRole(cv.members[k][j].role)

\* C9: a message's content is a bare string if and only if its group holds
\* exactly one block and that block is a text block; otherwise the content is
\* the group's list of blocks.
C9_CollapseOnlySingleText ==
    cvPc # "idle" =>
        /\ Len(cv.members) = Len(cv.messages)
        /\ \A k \in 1..Len(cv.messages) :
              LET group == BlocksBuilt(cv.members[k])
                  content == cv.messages[k].content
              IN /\ (content.kind = "str") <=> (Len(group) = 1 /\ group[1].type = "text")
                 /\ content.kind = "str" => content.text = group[1].text
                 /\ content.kind # "str" => content.kind = "list" /\ content.blocks = group

C9_Witness ==
    /\ cvPc = "returned"
    /\ Len(cvResult) = 3
    /\ cvResult[1].content.kind = "str"
    /\ cvResult[2].content.kind = "list" /\ Len(cvResult[2].content.blocks) = 1
    /\ cvResult[3].content.kind = "list" /\ Len(cvResult[3].content.blocks) = 1

\* C10: the blocks of the messages, in message order, are the blocks built from
\* the parts, in input order: during the loop together with the pending
\* content_parts, and at the return on their own; an empty turn returns no
\* message.
C10_BlocksPreserved ==
    /\ cvPc = "loop" =>
          AllBlocks(cv.messages) \o cv.content_parts = BlocksBuilt(SubSeq(cvParts, 1, cvIdx))
    /\ cvPc = "returned" =>
          /\ AllBlocks(cvResult) = BlocksBuilt(cvParts)
          /\ cvParts = <<>> => cvResult = <<>>

C10_Witness ==
    /\ cvPc = "returned"
    /\ Len(cvParts) = 3
    /\ Len(cvResult) = 2
    /\ Len(BlocksOf(cvResult[1])) = 2
    /\ cvParts[1].role # None
    /\ cvParts[1] # cvParts[2]

----------------------------------------------------------------------------
(* Claims about call, under Spec *)

\* a part the specification calls unsupported: neither text nor image, or an
\* image without bytes
Unsupported(part) ==
    \/ part.mimetype.type \notin {"text", "image"}
    \/ part.mimetype.type = "image" /\ part.bytes = <<>>

HasUnsupported(turn) == \E j \in 1..Len(turn) : Unsupported(turn[j])

\* C1: a turn with an unsupported part at any position never reaches the
\* model and emits nothing, and once its input is drained the call has raised
\* the unsupported-input error.
C1_UnsupportedAbortsBeforeModel ==
    \A i \in DOMAIN pc :
        HasUnsupported(stream[i]) =>
            /\ astreamCalls[i] = 0
            /\ out[i] = <<>>
            /\ pc[i] \in {"idle", "collecting", "raised"}
            /\ pc[i] = "raised" => err[i] = "ValueError"

C1_Witness ==
    /\ pc[1] = "raised"
    /\ err[1] = "ValueError"
    /\ Len(stream[1]) = 3
    /\ ~Unsupported(stream[1][1])
    /\ Unsupported(stream[1][2])
    /\ stream[1][2].mimetype.type = "image"
    /\ ~Unsupported(stream[1][3])

\* C4: the parts emitted so far correspond one to one, in order, to the chunks
\* the model has yielded so far: the i-th part has the i-th chunk's content as
\* text, role model, MIME type text/plain, and the one model metadata value of
\* the invocation.
C4_OutputMirrorsChunks ==
    \A i \in DOMAIN pc :
        /\ Len(out[i]) = Len(yielded[i])
        /\ \A j \in 1..Len(out[i]) :
              /\ out[i][j].text = yielded[i][j].content
              /\ out[i][j].role = "model"
              /\ out[i][j].mimetype = [type |-> "text", subtype |-> "plain"]
              /\ DOMAIN out[i][j].metadata = {"model"}
              /\ out[i][j].metadata.model = out[i][1].metadata.model
              /\ out[i][j].metadata.model =
                    (IF llm.hasModel THEN llm.model ELSE llm.typeName)

C4_Witness ==
    /\ pc[1] = "streaming"
    /\ Len(yielded[1]) = 2
    /\ yielded[1][1].content = "Hello"
    /\ yielded[1][2].content = " world"
    /\ Len(out[1]) = 2
    /\ out[1][1].text = "Hello"
    /\ out[1][2].text = " world"

\* the message list inside the payload handed to astream
PayloadMessages(p) == IF p.kind = "dict" THEN p.input.messages ELSE p.messages

\* C5: with a non-empty system instruction the message list handed to the
\* model is a System Message holding exactly that string followed by the
\* messages converted from the turn, unchanged and in order; with an empty
\* one it is the converted messages alone.
C5_SystemInstructionFirst ==
    \A i \in DOMAIN pc :
        astreamCalls[i] >= 1 =>
            LET converted == ConvertToLangchainMessages(stream[i]).messages
            IN /\ PayloadMessages(payload[i]) = msgs[i]
               /\ system_instruction # "" =>
                     /\ Len(msgs[i]) = Len(converted) + 1
                     /\ msgs[i][1].cls = "SystemMessage"
                     /\ msgs[i][1].content = [kind |-> "str", text |-> system_instruction]
                     /\ Tail(msgs[i]) = converted
               /\ system_instruction = "" => msgs[i] = converted

C5_Witness ==
    /\ pc[1] = "streaming"
    /\ system_instruction = "Be terse."
    /\ Len(stream[1]) >= 2
    /\ stream[1][1].role = "system"
    /\ Len(msgs[1]) = 3
    /\ msgs[1][2].cls = "SystemMessage"

\* the parts call() has emitted are those of the chunks yielded
OutMatchesYielded(i) ==
    /\ Len(out[i]) = Len(yielded[i])
    /\ \A j \in 1..Len(out[i]) : out[i][j].text = yielded[i][j].content

C6_Inv ==
    \A i \in DOMAIN pc :
        /\ astreamCalls[i] <= 1
        /\ err[i] = "ExternalModelError" =>
              /\ pc[i] = "raised"
              /\ astreamCalls[i] = 1
              /\ OutMatchesYielded(i)

C6_Step ==
    \A i \in DOMAIN pc :
        pc[i] = "raised" =>
            /\ pc'[i] = "raised"
            /\ err'[i] = err[i]
            /\ out'[i] = out[i]
            /\ astreamCalls'[i] = astreamCalls[i]

\* C6: when the model's stream raises after k chunks, exactly the k parts of
\* those chunks have been emitted, the error has left call(), nothing is
\* emitted afterwards, and astream was invoked once, never again.
C6_ModelErrorPropagates == []C6_Inv /\ [][C6_Step]_vars

C6_Witness ==
    /\ pc[1] = "raised"
    /\ err[1] = "ExternalModelError"
    /\ Len(yielded[1]) = 1
    /\ Len(out[1]) = 1

IsPrefix(s, t) == Len(s) <= Len(t) /\ s = SubSeq(t, 1, Len(s))

\* C7: COLLECTING then STREAMING: while collecting, the buffer is a prefix of
\* the input, the model is not invoked and nothing is emitted; the model is
\* invoked only once the buffer equals the whole input, and parts are emitted
\* only after the model is invoked.
C7_CollectThenStream ==
    \A i \in DOMAIN pc :
        /\ pc[i] = "collecting" =>
              /\ IsPrefix(parts[i], stream[i])
              /\ astreamCalls[i] = 0
              /\ out[i] = <<>>
        /\ astreamCalls[i] >= 1 => parts[i] = stream[i]
        /\ pc[i] \in {"streaming", "done"} => astreamCalls[i] = 1
        /\ out[i] # <<>> => astreamCalls[i] >= 1
        /\ pc[i] = "raised" /\ err[i] = "ValueError" => parts[i] = stream[i]

C7_Witness ==
    /\ pc[1] = "streaming"
    /\ Len(stream[1]) = 3
    /\ stream[1][1] # stream[1][2]
    /\ stream[1][2] # stream[1][3]
    /\ parts[1] = stream[1]
    /\ Len(out[1]) = 1

----------------------------------------------------------------------------
(* Claims about concurrent calls, under SpecConc *)

\* what an invocation holds when it runs alone on its own input
AloneMessages(turn) ==
    LET converted == ConvertToLangchainMessages(turn).messages
    IN IF system_instruction # ""
       THEN << [cls |-> "SystemMessage",
                content |-> [kind |-> "str", text |-> system_instruction],
                additional_kwargs |-> <<>>] >> \o converted
       ELSE converted

C8_Inv ==
    \A i \in DOMAIN pc :
        /\ pc[i] # "idle" => IsPrefix(parts[i], stream[i])
        /\ astreamCalls[i] >= 1 =>
              /\ parts[i] = stream[i]
              /\ msgs[i] = AloneMessages(stream[i])
              /\ PayloadMessages(payload[i]) = msgs[i]
        /\ OutMatchesYielded(i)
        /\ HasUnsupported(stream[i]) => astreamCalls[i] = 0 /\ out[i] = <<>>

C8_Step ==
    /\ llm' = llm
    /\ system_instruction' = system_instruction
    /\ prompt_template' = prompt_template
    /\ \A i \in DOMAIN pc :
          \* a step of one invocation leaves the other's locals alone
          \A j \in DOMAIN pc \ {i} :
              pc'[i] # pc[i] \/ parts'[i] # parts[i] \/ out'[i] # out[i] =>
                  /\ parts'[j] = parts[j]
                  /\ msgs'[j] = msgs[j]
                  /\ out'[j] = out[j]
                  /\ pc'[j] = pc[j]

\* C8: with two invocations interleaved on one adapter, each invocation's
\* buffered turn, message list and emitted parts are those of its own input and
\* its own chunks, a step of one changes nothing of the other, and no step
\* writes llm, system_instruction or prompt_template.
C8_CallsIndependent == []C8_Inv /\ [][C8_Step]_vars

C8_Witness ==
    /\ pc[1] = "streaming"
    /\ pc[2] = "streaming"
    /\ stream[1] # stream[2]
    /\ msgs[1] # msgs[2]
    /\ Len(out[1]) = 1
    /\ Len(out[2]) = 2
    /\ out[1][1].text # out[2][1].text

====
